---- MODULE Spec2Model ----
(***************************************************************************)
(* Model of the PulseAudio binding's Context (context/mod.rs) and Stream   *)
(* (stream.rs) wrappers.  The foreign library is an adversarial mock: each *)
(* foreign call returns any value of its return type (SpecProtocol and     *)
(* SpecRefs instead run the wrappers against a library that keeps its      *)
(* documented contract, whose state is `lib`).  Every wrapper call         *)
(* records, in `last`, the                                                 *)
(* handle it ran on, its inputs, the foreign calls it made in order (with  *)
(* arguments and return value), the handles it built, its result and       *)
(* whether it panicked.                                                    *)
(***************************************************************************)
EXTENDS Integers, Sequences, FiniteSets, TLC

VARIABLES ctx, stream, lib, last

vars == <<ctx, stream, lib, last>>

(***************************************************************************)
(* Bounds of the model.                                                    *)
(***************************************************************************)
MaxCtx == 2
MaxStream == 1
MaxKeys == 1

(***************************************************************************)
(* Values.                                                                 *)
(***************************************************************************)
\* The null pointer (null / null_mut).
NULL == 0
\* Non-null addresses the foreign library hands out.
Ptrs == {1, 2}
PtrOrNull == {NULL} \cup Ptrs

\* i32 status codes returned by the foreign library (0 is success).
RetCodes == {-2147483647 - 1, -15, -1, 0, 1, 5, 2147483647}

\* Rust strings as byte sequences; 0 is the NUL byte, 97 is 'a'.
Names == {<<>>, <<97>>, <<97, 0, 97>>}

\* Fixed-width unsigned values as little-endian sequences of 16-bit limbs
\* (the bit pattern; a signed value is its two's complement).
LimbMax == 2^16 - 1
AllOnes(n) == [i \in 1..n |-> LimbMax]
U32Vals == {<<0, 0>>, <<1, 0>>, <<LimbMax, 0>>, <<0, LimbMax>>,
            <<LimbMax - 1, LimbMax>>, <<LimbMax, LimbMax>>}
UsizeVals == {<<0, 0, 0, 0>>, <<1, 0, 0, 0>>, <<LimbMax, LimbMax, 0, 0>>,
              <<0, 0, LimbMax, LimbMax>>,
              <<LimbMax - 1, LimbMax, LimbMax, LimbMax>>,
              <<LimbMax, LimbMax, LimbMax, LimbMax>>}
I64Vals == {<<0, 0, 0, 0>>, <<1, 0, 0, 0>>, <<LimbMax, LimbMax, 0, 0>>,
            <<0, 0, 0, 32768>>, <<LimbMax - 1, LimbMax, LimbMax, LimbMax>>,
            <<LimbMax, LimbMax, LimbMax, LimbMax>>}

(***************************************************************************)
(* Rust result values.                                                     *)
(***************************************************************************)
None == [tag |-> "None"]
Some(v) == [tag |-> "Some", val |-> v]
Ok(v) == [tag |-> "Ok", val |-> v]
Err(e) == [tag |-> "Err", err |-> e]
Unit == [tag |-> "Unit"]
Panicked == [tag |-> "Panic"]

(***************************************************************************)
(* The foreign library's side of a stream.  `lib` is what the library      *)
(* holds for the stream object the calls run on.  With contract = FALSE    *)
(* the library is the adversarial mock and `lib` never changes.  With      *)
(* contract = TRUE it is a fake that keeps the promises the doc comments   *)
(* of stream.rs make for the library: the current fragment of a record     *)
(* stream (peek / discard), the region reserved by begin_write, whether    *)
(* the stream was connected for upload, whether a timing-info snapshot     *)
(* exists, and for each context object the references the wrapper holds    *)
(* on it (one from its creation, one more per pa_context_ref, one less     *)
(* per pa_context_unref; overdrawn once an unref found none left).         *)
(***************************************************************************)
NoFragment == [held |-> FALSE, p |-> NULL, n |-> <<0, 0, 0, 0>>]
NoRegion == [held |-> FALSE, p |-> NULL, n |-> <<0, 0, 0, 0>>]
Held(p, n) == [held |-> TRUE, p |-> p, n |-> n]

AnyLib ==
    [contract |-> FALSE, fragment |-> NoFragment, reserved |-> NoRegion,
     upload |-> FALSE, timing |-> FALSE, refs |-> [p \in Ptrs |-> 0],
     overdrawn |-> FALSE]
FreshLib == [AnyLib EXCEPT !.contract = TRUE]

\* The status codes a call may return: any for the mock, success and two
\* failures for the fake.
Codes(l) == IF l.contract THEN {-1, 0, 5} ELSE RetCodes
\* Non-zero status codes.
Failures(l) == Codes(l) \ {0}

\* Byte counts (usize) the library writes back: 0, 4 and 2^32.
Counts == {<<0, 0, 0, 0>>, <<4, 0, 0, 0>>, <<0, 0, 1, 0>>}

\* What pa_stream_peek may return and write to its two out-parameters.  The
\* fake returns the fragment it already holds until it is dropped; otherwise
\* it reports an empty buffer, a hole, data, or a failure.
PeekOutcomes(l) ==
    LET all == {[e |-> e, p |-> p, n |-> n] : e \in RetCodes, p \in PtrOrNull, n \in Counts}
    IN  IF ~l.contract THEN all
        ELSE IF l.fragment.held
          THEN {[e |-> 0, p |-> l.fragment.p, n |-> l.fragment.n]}
        ELSE {o \in all : \/ o.e = 0 /\ o.p = NULL
                          \/ o.e = 0 /\ o.p # NULL /\ o.n # <<0, 0, 0, 0>>
                          \/ o.e = -1 /\ o.p = NULL /\ o.n = <<0, 0, 0, 0>>}

AfterPeek(l, o) ==
    IF l.contract /\ o.e = 0 /\ ~(o.p = NULL /\ o.n = <<0, 0, 0, 0>>)
      THEN [l EXCEPT !.fragment = Held(o.p, o.n)]
    ELSE l

\* What pa_stream_drop may return: the fake drops the fragment it holds and
\* rejects the call when it holds none.
DropReturns(l) ==
    IF ~l.contract THEN RetCodes
    ELSE IF l.fragment.held THEN {0}
    ELSE Failures(l)

AfterDrop(l, e) ==
    IF l.contract /\ e = 0 THEN [l EXCEPT !.fragment = NoFragment] ELSE l

\* What pa_stream_begin_write may return for a requested size req and write
\* to its out-parameters (the size is left as passed when the call fails).
\* The fake keeps the region it reserved until a write or cancel_write and
\* returns that same region to every begin_write in between.
BeginWriteOutcomes(l, req) ==
    LET all == {[e |-> e, p |-> p, n |-> n] :
                  e \in RetCodes, p \in PtrOrNull, n \in {req, <<4, 0, 0, 0>>}}
    IN  IF ~l.contract THEN all
        ELSE IF l.reserved.held
          THEN {[e |-> 0, p |-> l.reserved.p, n |-> l.reserved.n]}
        ELSE {o \in all : \/ o.e = 0 /\ o.p # NULL /\ (o.n = req => req = <<8, 0, 0, 0>>)
                          \/ o.e = -1 /\ o.p = NULL /\ o.n = req}

AfterBeginWrite(l, o) ==
    IF l.contract /\ o.e = 0 /\ o.p # NULL
      THEN [l EXCEPT !.reserved = Held(o.p, o.n)]
    ELSE l

\* pa_stream_write, pa_stream_write_ext_free and pa_stream_cancel_write end
\* the reservation.
AfterWrite(l) == IF l.contract THEN [l EXCEPT !.reserved = NoRegion] ELSE l

\* What pa_stream_write may return: on an upload stream the fake rejects
\* every offset but 0 and every seek mode but Relative.
WriteReturns(l, offset, seek) ==
    IF l.contract /\ l.upload /\ (offset # 0 \/ seek # "Relative")
      THEN Failures(l)
    ELSE Codes(l)

\* pa_stream_connect_upload makes the stream an upload stream.
AfterConnectUpload(l, e) ==
    IF l.contract /\ e = 0 THEN [l EXCEPT !.upload = TRUE] ELSE l

\* ::error::Code::NoData as i32.
NoData == 10

\* Status codes of the timing queries.
TimeCodes == RetCodes \cup {-NoData, NoData}
\* Times (Usecs, a u64) the library writes: 5 and 2^32.
Times == {<<5, 0, 0, 0>>, <<0, 0, 1, 0>>}

\* What pa_stream_get_time may return and write to r_usecs (which starts 0
\* and which a failing call may or may not touch).  The fake has no time to
\* give until a timing-info update was received, and says so with -NoData.
GetTimeOutcomes(l) ==
    LET all == {[e |-> e, t |-> t] : e \in TimeCodes, t \in Times \cup {<<0, 0, 0, 0>>}}
    IN  IF ~l.contract THEN {o \in all : o.e \in {0, -1} \/ o.t = <<0, 0, 0, 0>>}
        ELSE IF ~l.timing THEN {[e |-> -NoData, t |-> <<0, 0, 0, 0>>]}
        ELSE {o \in all : o.e \in {0, -1} \/ o.t = <<0, 0, 0, 0>>}

\* The same for pa_stream_get_latency, which also writes the flag `negative`
\* (which starts 0).
GetLatencyOutcomes(l) ==
    LET all == {[e |-> e, t |-> t, negative |-> n] :
                  e \in TimeCodes, t \in Times \cup {<<0, 0, 0, 0>>}, n \in {-1, 0, 1, 2}}
        some == {o \in all : \/ o.e = 0 /\ o.t # <<0, 0, 1, 0>>
                             \/ o.e = -1 /\ o.t = <<5, 0, 0, 0>> /\ o.negative = 1
                             \/ o.t = <<0, 0, 0, 0>> /\ o.negative = 0}
    IN  IF ~l.contract THEN some
        ELSE IF ~l.timing THEN {[e |-> -NoData, t |-> <<0, 0, 0, 0>>, negative |-> 0]}
        ELSE {o \in some : o.e \in Codes(l) \cup {-NoData}}

\* A timing-info update that the library accepted (a non-null operation)
\* gives the fake its snapshot.
AfterUpdateTimingInfo(l, ptr) ==
    IF l.contract /\ ptr # NULL THEN [l EXCEPT !.timing = TRUE] ELSE l

(***************************************************************************)
(* Handles.  A slot of ctx / stream holds one wrapper object; a slot that  *)
(* holds none is NoHandle.  `origin` records whether from_raw or            *)
(* from_raw_weak built it.                                                 *)
(***************************************************************************)
NoHandle == [live |-> FALSE, ptr |-> NULL, weak |-> FALSE, origin |-> "none"]
Handle(obj) ==
    [live |-> TRUE, ptr |-> obj.ptr, weak |-> obj.weak, origin |-> obj.by]

LiveCtx == {h \in 1..MaxCtx : ctx[h].live}
FreeCtx == {h \in 1..MaxCtx : ~ctx[h].live}
LiveStream == {h \in 1..MaxStream : stream[h].live}
FreeStream == {h \in 1..MaxStream : ~stream[h].live}
Lowest(S) == CHOOSE h \in S : \A g \in S : h <= g

(***************************************************************************)
(* CString::new(s): fails on an interior NUL byte, otherwise appends the   *)
(* terminating NUL.  The callers unwrap() the result.                      *)
(***************************************************************************)
HasNul(s) == \E i \in 1..Len(s) : s[i] = 0

CStringNewRejectsEmpty(s) ==
    IF HasNul(s) \/ s = <<>> THEN [ok |-> FALSE, bytes |-> <<>>]
    ELSE [ok |-> TRUE, bytes |-> Append(s, 0)]

CStringNew(s) ==
    IF HasNul(s) THEN [ok |-> FALSE, bytes |-> <<>>]
    ELSE [ok |-> TRUE, bytes |-> Append(s, 0)]

\* A `*const c_char`: null, or the address of a buffer holding `bytes`;
\* `alive` says whether that buffer is still allocated at the foreign call.
NullStr == [null |-> TRUE, bytes |-> <<>>, alive |-> TRUE]
AsPtr(c, alive) == [null |-> FALSE, bytes |-> c.bytes, alive |-> alive]

(***************************************************************************)
(* The record of one wrapper call.                                         *)
(***************************************************************************)
FCall(fn, ptr, args, ret) == [fn |-> fn, ptr |-> ptr, args |-> args, ret |-> ret]
NoArgs == [none |-> TRUE]

Outcome(op, self, in, fcalls, created, result, panic) ==
    [op |-> op, self |-> self, in |-> in, fcalls |-> fcalls,
     created |-> created, result |-> result, panic |-> panic]

NoCall == Outcome("none", NoHandle, NoArgs, <<>>, <<>>, Unit, "none")

Running == last.panic = "none"

\* How many of the foreign calls of a call are calls of fn on object p.
RECURSIVE CountCalls(_, _, _)
CountCalls(fcalls, fn, p) ==
    IF fcalls = <<>> THEN 0
    ELSE (IF fcalls[1].fn = fn /\ fcalls[1].ptr = p THEN 1 ELSE 0)
         + CountCalls(Tail(fcalls), fn, p)

\* The references the wrapper holds on context objects after one foreign
\* call: a constructor that returned an object gives the first reference,
\* pa_context_ref one more, pa_context_unref takes one (an unref with none
\* left is made on a destroyed object).
AfterContextCall(l, c) ==
    IF ~l.contract THEN l
    ELSE IF c.fn \in {"pa_context_new", "pa_context_new_with_proplist"} /\ c.ret # NULL
      THEN [l EXCEPT !.refs[c.ret] = @ + 1]
    ELSE IF c.fn = "pa_context_ref"
      THEN [l EXCEPT !.refs[c.ptr] = @ + 1]
    ELSE IF c.fn = "pa_context_unref"
      THEN (IF l.refs[c.ptr] = 0 THEN [l EXCEPT !.overdrawn = TRUE]
            ELSE [l EXCEPT !.refs[c.ptr] = @ - 1])
    ELSE l

RECURSIVE AfterContextCalls(_, _)
AfterContextCalls(l, fcalls) ==
    IF fcalls = <<>> THEN l
    ELSE AfterContextCalls(AfterContextCall(l, fcalls[1]), Tail(fcalls))

\* What pa_stream_get_context can return: the adversarial mock any pointer,
\* the fake the context the stream is attached to, an object that exists.
GetContextReturns(l) ==
    IF l.contract THEN {NULL} \cup {p \in Ptrs : l.refs[p] > 0} ELSE PtrOrNull

(***************************************************************************)
(* Context: construction, clone and drop (context/mod.rs).                 *)
(***************************************************************************)
\* Context::from_raw: asserts the pointer is non-null, builds an owning handle.
ContextFromRawWeakFlag(ptr) ==
    [ok |-> ptr # NULL, ptr |-> ptr, weak |-> TRUE, by |-> "from_raw"]

ContextFromRaw(ptr) ==
    [ok |-> ptr # NULL, ptr |-> ptr, weak |-> FALSE, by |-> "from_raw"]

\* Context::from_raw_weak: asserts the pointer is non-null, builds a weak handle.
ContextFromRawWeak(ptr) ==
    [ok |-> ptr # NULL, ptr |-> ptr, weak |-> TRUE, by |-> "from_raw_weak"]

Built(kind, slot, obj) ==
    [kind |-> kind, slot |-> slot, ptr |-> obj.ptr, weak |-> obj.weak, by |-> obj.by]
Wrapped(obj) == [ptr |-> obj.ptr, weak |-> obj.weak]

\* The body shared by Context::new and Context::new_with_proplist: convert
\* the name, call the foreign constructor fn, None on null, else from_raw.
ConstructContext(op, fn, name, fret) ==
    LET c_name == CStringNew(name)
        call == FCall(fn, NULL, [name |-> AsPtr(c_name, TRUE)], fret)
        h == Lowest(FreeCtx)
        obj == ContextFromRaw(fret)
        in == [name |-> name]
    IN  IF ~c_name.ok
          THEN /\ last' = Outcome(op, NoHandle, in, <<>>, <<>>, Panicked, "unwrap")
               /\ UNCHANGED <<ctx, stream, lib>>
        ELSE IF fret = NULL
          THEN /\ last' = Outcome(op, NoHandle, in, <<call>>, <<>>, None, "none")
               /\ UNCHANGED <<ctx, stream, lib>>
        ELSE /\ ctx' = [ctx EXCEPT ![h] = Handle(obj)]
             /\ last' = Outcome(op, NoHandle, in, <<call>>,
                                <<Built("Context", h, obj)>>, Some(Wrapped(obj)), "none")
             /\ lib' = AfterContextCalls(lib, <<call>>)
             /\ UNCHANGED stream

ContextNew ==
    /\ Running
    /\ FreeCtx # {}
    /\ \E name \in Names, fret \in PtrOrNull :
         ConstructContext("Context::new", "pa_context_new", name, fret)

ContextNewWithProplist ==
    /\ Running
    /\ FreeCtx # {}
    /\ \E name \in Names, fret \in PtrOrNull :
         ConstructContext("Context::new_with_proplist", "pa_context_new_with_proplist",
                          name, fret)

\* Context::from_raw_weak called by the application (in a callback) on a pointer.
ContextFromRawWeakCall ==
    /\ Running
    /\ FreeCtx # {}
    /\ \E ptr \in PtrOrNull :
         LET obj == ContextFromRawWeak(ptr)
             h == Lowest(FreeCtx)
             in == [ptr |-> ptr]
         IN  IF ~obj.ok
               THEN /\ last' = Outcome("Context::from_raw_weak", NoHandle, in, <<>>, <<>>,
                                       Panicked, "assert")
                    /\ UNCHANGED <<ctx, stream, lib>>
             ELSE /\ ctx' = [ctx EXCEPT ![h] = Handle(obj)]
                  /\ last' = Outcome("Context::from_raw_weak", NoHandle, in, <<>>,
                                     <<Built("Context", h, obj)>>,
                                     [tag |-> "Value", val |-> Wrapped(obj)], "none")
                  /\ UNCHANGED <<stream, lib>>

\* A clone that copies the handle and takes no reference.
ContextCloneWithoutRef ==
    /\ Running
    /\ FreeCtx # {}
    /\ \E s \in LiveCtx :
         LET self == ctx[s]
             obj == ContextFromRaw(self.ptr)
             h == Lowest(FreeCtx)
         IN  IF ~obj.ok
               THEN /\ last' = Outcome("Context::clone", self, NoArgs, <<>>, <<>>,
                                       Panicked, "assert")
                    /\ UNCHANGED <<ctx, stream, lib>>
             ELSE /\ ctx' = [ctx EXCEPT ![h] = Handle(obj)]
                  /\ last' = Outcome("Context::clone", self, NoArgs, <<>>,
                                     <<Built("Context", h, obj)>>,
                                     [tag |-> "Value", val |-> Wrapped(obj)], "none")
                  /\ UNCHANGED <<stream, lib>>

\* impl Clone for Context: pa_context_ref, then from_raw of the same pointer.
ContextClone ==
    /\ Running
    /\ FreeCtx # {}
    /\ \E s \in LiveCtx :
         LET self == ctx[s]
             call == FCall("pa_context_ref", self.ptr, NoArgs, self.ptr)
             obj == ContextFromRaw(self.ptr)
             h == Lowest(FreeCtx)
         IN  IF ~obj.ok
               THEN /\ last' = Outcome("Context::clone", self, NoArgs, <<call>>, <<>>,
                                       Panicked, "assert")
                    /\ UNCHANGED <<ctx, stream, lib>>
             ELSE /\ ctx' = [ctx EXCEPT ![h] = Handle(obj)]
                  /\ last' = Outcome("Context::clone", self, NoArgs, <<call>>,
                                     <<Built("Context", h, obj)>>,
                                     [tag |-> "Value", val |-> Wrapped(obj)], "none")
                  /\ lib' = AfterContextCalls(lib, <<call>>)
                  /\ UNCHANGED stream

\* The foreign calls of impl Drop for Context, in order.
ContextDropCallsAlways(self) ==
    <<FCall("pa_context_unref", self.ptr, NoArgs, 0)>>

ContextDropCalls(self) ==
    IF ~self.weak THEN <<FCall("pa_context_unref", self.ptr, NoArgs, 0)>> ELSE <<>>

\* impl Drop for Context; the object is gone afterwards.
ContextDrop ==
    /\ Running
    /\ \E s \in LiveCtx :
         LET self == ctx[s]
         IN  /\ ctx' = [ctx EXCEPT ![s] = NoHandle]
             /\ last' = Outcome("Context::drop", self, NoArgs, ContextDropCalls(self), <<>>,
                                [tag |-> "Dropped", ptr |-> NULL], "none")
             /\ lib' = AfterContextCalls(lib, ContextDropCalls(self))
             /\ UNCHANGED stream

(***************************************************************************)
(* Stream: construction, get_context and drop (stream.rs).                 *)
(***************************************************************************)
StreamFromRaw(ptr) ==
    [ok |-> ptr # NULL, ptr |-> ptr, weak |-> FALSE, by |-> "from_raw"]

StreamFromRawWeak(ptr) ==
    [ok |-> ptr # NULL, ptr |-> ptr, weak |-> TRUE, by |-> "from_raw_weak"]

\* The body shared by Stream::new, new_with_proplist and new_extended.
ConstructStream(op, fn, c, name, extra, fret) ==
    LET c_name == CStringNew(name)
        call == FCall(fn, NULL, [ctx |-> ctx[c].ptr, name |-> AsPtr(c_name, TRUE),
                                 extra |-> extra], fret)
        h == Lowest(FreeStream)
        obj == StreamFromRaw(fret)
        in == [name |-> name]
    IN  IF ~c_name.ok
          THEN /\ last' = Outcome(op, NoHandle, in, <<>>, <<>>, Panicked, "unwrap")
               /\ UNCHANGED <<ctx, stream, lib>>
        ELSE IF fret = NULL
          THEN /\ last' = Outcome(op, NoHandle, in, <<call>>, <<>>, None, "none")
               /\ UNCHANGED <<ctx, stream, lib>>
        ELSE /\ stream' = [stream EXCEPT ![h] = Handle(obj)]
             /\ last' = Outcome(op, NoHandle, in, <<call>>,
                                <<Built("Stream", h, obj)>>, Some(Wrapped(obj)), "none")
             /\ UNCHANGED <<ctx, lib>>

StreamNew ==
    /\ Running
    /\ FreeStream # {}
    /\ \E c \in LiveCtx, name \in Names, fret \in PtrOrNull :
         ConstructStream("Stream::new", "pa_stream_new", c, name, 0, fret)

StreamNewWithProplist ==
    /\ Running
    /\ FreeStream # {}
    /\ \E c \in LiveCtx, name \in Names, fret \in PtrOrNull :
         ConstructStream("Stream::new_with_proplist", "pa_stream_new_with_proplist",
                         c, name, 0, fret)

\* Stream::new_extended also passes the number of formats.
StreamNewExtended ==
    /\ Running
    /\ FreeStream # {}
    /\ \E c \in LiveCtx, name \in Names, nformats \in {0, 2}, fret \in PtrOrNull :
         ConstructStream("Stream::new_extended", "pa_stream_new_extended",
                         c, name, nformats, fret)

StreamFromRawWeakCall ==
    /\ Running
    /\ FreeStream # {}
    /\ \E ptr \in PtrOrNull :
         LET obj == StreamFromRawWeak(ptr)
             h == Lowest(FreeStream)
             in == [ptr |-> ptr]
         IN  IF ~obj.ok
               THEN /\ last' = Outcome("Stream::from_raw_weak", NoHandle, in, <<>>, <<>>,
                                       Panicked, "assert")
                    /\ UNCHANGED <<ctx, stream, lib>>
             ELSE /\ stream' = [stream EXCEPT ![h] = Handle(obj)]
                  /\ last' = Outcome("Stream::from_raw_weak", NoHandle, in, <<>>,
                                     <<Built("Stream", h, obj)>>,
                                     [tag |-> "Value", val |-> Wrapped(obj)], "none")
                  /\ UNCHANGED <<ctx, lib>>

\* Stream::get_context: Context::from_raw of what pa_stream_get_context returns.
StreamGetContext ==
    /\ Running
    /\ FreeCtx # {}
    /\ \E s \in LiveStream, fret \in GetContextReturns(lib) :
         LET self == stream[s]
             call == FCall("pa_stream_get_context", self.ptr, NoArgs, fret)
             obj == ContextFromRaw(fret)
             h == Lowest(FreeCtx)
         IN  IF ~obj.ok
               THEN /\ last' = Outcome("Stream::get_context", self, NoArgs, <<call>>, <<>>,
                                       Panicked, "assert")
                    /\ UNCHANGED <<ctx, stream, lib>>
             ELSE /\ ctx' = [ctx EXCEPT ![h] = Handle(obj)]
                  /\ last' = Outcome("Stream::get_context", self, NoArgs, <<call>>,
                                     <<Built("Context", h, obj)>>,
                                     [tag |-> "Value", val |-> Wrapped(obj)], "none")
                  /\ UNCHANGED <<stream, lib>>

\* The status pattern of every status-returning wrapper: 0 => Ok(()), e => Err(e).
StatusResultPositiveOnly(e) == IF e <= 0 THEN Ok(Unit) ELSE Err(e)

StatusResult(e) == IF e = 0 THEN Ok(Unit) ELSE Err(e)

\* The foreign calls of impl Drop for Stream, in order, given what the foreign
\* disconnect returns: self.disconnect().unwrap() panics on Err, before unref.
StreamDropCallsUnrefFirst(self, e) ==
    IF self.weak THEN <<>>
    ELSE <<FCall("pa_stream_unref", self.ptr, NoArgs, 0),
           FCall("pa_stream_disconnect", self.ptr, NoArgs, e)>>

StreamDropCalls(self, e) ==
    IF self.weak THEN <<>>
    ELSE IF StatusResult(e).tag = "Ok"
      THEN <<FCall("pa_stream_disconnect", self.ptr, NoArgs, e),
             FCall("pa_stream_unref", self.ptr, NoArgs, 0)>>
    ELSE <<FCall("pa_stream_disconnect", self.ptr, NoArgs, e)>>

StreamDropPanics(self, e) == ~self.weak /\ StatusResult(e).tag = "Err"

\* impl Drop for Stream; the object is gone afterwards, also when drop panicked.
StreamDrop ==
    /\ Running
    /\ \E s \in LiveStream, e \in RetCodes :
         LET self == stream[s]
         IN  /\ stream' = [stream EXCEPT ![s] = NoHandle]
             /\ last' = IF StreamDropPanics(self, e)
                          THEN Outcome("Stream::drop", self, NoArgs, StreamDropCalls(self, e),
                                       <<>>, Panicked, "unwrap")
                        ELSE Outcome("Stream::drop", self, NoArgs, StreamDropCalls(self, e),
                                     <<>>, [tag |-> "Dropped", ptr |-> NULL], "none")
             /\ UNCHANGED <<ctx, lib>>

(***************************************************************************)
(* The life of the handles.                                                *)
(***************************************************************************)
Init ==
    /\ ctx = [h \in 1..MaxCtx |-> NoHandle]
    /\ stream = [h \in 1..MaxStream |-> NoHandle]
    /\ lib = AnyLib
    /\ last = NoCall

Next ==
    \/ ContextNew
    \/ ContextNewWithProplist
    \/ ContextFromRawWeakCall
    \/ ContextClone
    \/ ContextDrop
    \/ StreamNew
    \/ StreamNewWithProplist
    \/ StreamNewExtended
    \/ StreamFromRawWeakCall
    \/ StreamGetContext
    \/ StreamDrop

Spec == Init /\ [][Next]_vars

(***************************************************************************)
(* Properties of the life of the handles (checked under Spec).             *)
(***************************************************************************)
ContextBuilders ==
    {"Context::new", "Context::new_with_proplist", "Context::clone", "Stream::get_context"}
ConstructorOps ==
    {"Context::new", "Context::new_with_proplist",
     "Stream::new", "Stream::new_with_proplist", "Stream::new_extended"}
ConstructorFn ==
    [op \in ConstructorOps |->
       CASE op = "Context::new" -> "pa_context_new"
         [] op = "Context::new_with_proplist" -> "pa_context_new_with_proplist"
         [] op = "Stream::new" -> "pa_stream_new"
         [] op = "Stream::new_with_proplist" -> "pa_stream_new_with_proplist"
         [] op = "Stream::new_extended" -> "pa_stream_new_extended"]

\* C1: dropping a Context handle built by from_raw (which is what new,
\* new_with_proplist, clone and Stream::get_context build) calls
\* pa_context_unref on its pointer exactly once and makes no other foreign
\* call; dropping one built by from_raw_weak makes no foreign call at all.
ContextDropUnrefsOnceIffOwning ==
    /\ last.op = "Context::drop" =>
         /\ last.self.origin \in {"from_raw", "from_raw_weak"}
         /\ CountCalls(last.fcalls, "pa_context_unref", last.self.ptr)
              = (IF last.self.origin = "from_raw_weak" THEN 0 ELSE 1)
         /\ Len(last.fcalls) = (IF last.self.origin = "from_raw_weak" THEN 0 ELSE 1)
    /\ \A i \in 1..Len(last.created) :
         last.created[i].kind = "Context" =>
           /\ last.op \in ContextBuilders => last.created[i].by = "from_raw"
           /\ last.op = "Context::from_raw_weak" => last.created[i].by = "from_raw_weak"
           /\ ctx[last.created[i].slot].origin = last.created[i].by

ContextOwningDropSeen ==
    /\ last.op = "Context::drop"
    /\ last.self.origin = "from_raw"
    /\ Len(last.fcalls) = 1
    /\ last.fcalls[1].fn = "pa_context_unref"

\* C2: dropping a non-weak Stream calls pa_stream_unref exactly once whatever
\* the foreign disconnect returns, and dropping a weak Stream calls it zero times.
StreamDropUnrefsOnceIffOwning ==
    last.op = "Stream::drop" =>
      CountCalls(last.fcalls, "pa_stream_unref", last.self.ptr)
        = (IF last.self.weak THEN 0 ELSE 1)

\* C3: the drop of a non-weak Stream issues pa_stream_disconnect first, then
\* pa_stream_unref, each at most once and no unref without a disconnect before
\* it; the drop of a weak Stream issues neither.
StreamDropDisconnectsBeforeUnref ==
    last.op = "Stream::drop" =>
      IF last.self.weak THEN last.fcalls = <<>>
      ELSE /\ CountCalls(last.fcalls, "pa_stream_disconnect", last.self.ptr) <= 1
           /\ CountCalls(last.fcalls, "pa_stream_unref", last.self.ptr) <= 1
           /\ Len(last.fcalls) >= 1
           /\ last.fcalls[1].fn = "pa_stream_disconnect"
           /\ \A j \in 1..Len(last.fcalls) :
                last.fcalls[j].fn = "pa_stream_unref" =>
                  \E i \in 1..(j - 1) :
                    /\ last.fcalls[i].fn = "pa_stream_disconnect"
                    /\ last.fcalls[i].ptr = last.fcalls[j].ptr

StreamOwningDropSeen ==
    /\ last.op = "Stream::drop"
    /\ ~last.self.weak
    /\ Len(last.fcalls) = 2
    /\ last.fcalls[2].fn = "pa_stream_unref"

\* Foreign functions that report failure by a non-zero status.
StatusFns ==
    {"pa_context_connect", "pa_context_load_cookie_from_file",
     "pa_stream_connect_playback", "pa_stream_connect_record",
     "pa_stream_connect_upload", "pa_stream_finish_upload", "pa_stream_disconnect",
     "pa_stream_cancel_write", "pa_stream_write", "pa_stream_write_ext_free",
     "pa_stream_drop", "pa_stream_set_monitor_stream"}
\* Foreign constructors, which report failure by a null handle.
HandleFns == {ConstructorFn[op] : op \in ConstructorOps}
ForeignFailed(c) ==
    \/ c.fn \in StatusFns /\ c.ret # 0
    \/ c.fn \in HandleFns /\ c.ret = NULL

\* C4: a wrapper call in which a foreign call reported failure (non-zero
\* status or null handle) does not panic, also not the implicit disconnect
\* of a Stream's drop.
ForeignFailureNeverPanics ==
    (\E i \in 1..Len(last.fcalls) : ForeignFailed(last.fcalls[i])) => last.panic = "none"

\* C5: a constructor whose foreign constructor returned null gives None and
\* builds no handle; one whose foreign constructor returned p # null gives
\* Some(handle) with pointer p and weak = false, stored as a live handle.
ConstructorWrapsForeignPointer ==
    (last.op \in ConstructorOps /\ last.fcalls # <<>>) =>
      LET p == last.fcalls[Len(last.fcalls)].ret
      IN  IF p = NULL
            THEN last.result = None /\ last.created = <<>>
          ELSE /\ last.result = Some([ptr |-> p, weak |-> FALSE])
               /\ Len(last.created) = 1
               /\ last.created[1].ptr = p
               /\ ~last.created[1].weak
               /\ LET slot == last.created[1].slot
                      obj == IF last.created[1].kind = "Context" THEN ctx[slot]
                             ELSE stream[slot]
                  IN  obj.live /\ obj.ptr = p /\ ~obj.weak

ConstructorSomeSeen ==
    /\ last.op \in ConstructorOps
    /\ last.result.tag = "Some"
    /\ last.result.val.ptr = 2
    /\ last.fcalls[1].ret = 2

\* C6 as claimed: every constructor call, whatever the name, reaches the
\* foreign constructor and fails only by None on a null foreign handle.
ConstructionNeverValidatesName ==
    last.op \in ConstructorOps =>
      /\ Len(last.fcalls) = 1
      /\ last.panic = "none"
      /\ last.result.tag \in {"None", "Some"}
      /\ last.result.tag = "None" <=> last.fcalls[1].ret = NULL

\* C6 amended: a name with an interior NUL byte makes the constructor panic
\* (CString::new(..).unwrap()) before any foreign call; for every other name
\* the foreign constructor is called once with the NUL-terminated name, and
\* construction fails only by None, exactly when the foreign handle is null.
ConstructionValidatesOnlyInteriorNul ==
    last.op \in ConstructorOps =>
      IF HasNul(last.in.name)
        THEN last.panic = "unwrap" /\ last.fcalls = <<>> /\ last.created = <<>>
      ELSE /\ last.panic = "none"
           /\ Len(last.fcalls) = 1
           /\ last.fcalls[1].fn = ConstructorFn[last.op]
           /\ ~last.fcalls[1].args.name.null
           /\ last.fcalls[1].args.name.bytes = Append(last.in.name, 0)
           /\ last.result.tag \in {"None", "Some"}
           /\ last.result.tag = "None" <=> last.fcalls[1].ret = NULL

ConstructionNoneOnNullSeen ==
    /\ last.op \in ConstructorOps
    /\ ~HasNul(last.in.name)
    /\ Len(last.fcalls) = 1
    /\ last.fcalls[1].ret = NULL
    /\ last.result = None

(***************************************************************************)
(* Calls on a live handle.  None of them changes a handle; each records    *)
(* its foreign calls and its result in `last`.                             *)
(***************************************************************************)
\* Option<&str> arguments.
NoStr == [some |-> FALSE, s |-> <<>>]
OptNames == {NoStr} \cup {[some |-> TRUE, s |-> n] : n \in Names}

Returned(op, self, in, fcalls, created, result) ==
    /\ last' = Outcome(op, self, in, fcalls, created, result, "none")
    /\ UNCHANGED <<ctx, stream, lib>>

Panics(op, self, in, fcalls, why) ==
    /\ last' = Outcome(op, self, in, fcalls, <<>>, Panicked, why)
    /\ UNCHANGED <<ctx, stream, lib>>

\* A call that returns after a foreign call that moved the library to l.
ReturnedLib(op, self, in, fcalls, created, result, l) ==
    /\ last' = Outcome(op, self, in, fcalls, created, result, "none")
    /\ lib' = l
    /\ UNCHANGED <<ctx, stream>>

\* A wrapper that makes one foreign call and matches its status.
StatusCall(op, self, in, fn, args, e) ==
    Returned(op, self, in, <<FCall(fn, self.ptr, args, e)>>, <<>>, StatusResult(e))

\* Context::connect: server None is forwarded as null, Some(s) as the
\* converted string; flags and the spawn api are passed through.
ContextConnectEmptyIsDefault ==
    /\ Running
    /\ \E s \in LiveCtx, server \in OptNames, flags \in {0, 1}, api \in {NULL, 1},
          e \in RetCodes :
         LET self == ctx[s]
             c_server == CStringNew(IF server.some THEN server.s ELSE <<>>)
             p_server == IF server.some /\ server.s # <<>> THEN AsPtr(c_server, TRUE)
                         ELSE NullStr
             in == [server |-> server, flags |-> flags, api |-> api]
         IN  IF ~c_server.ok
               THEN Panics("Context::connect", self, in, <<>>, "unwrap")
             ELSE StatusCall("Context::connect", self, in, "pa_context_connect",
                             [server |-> p_server, flags |-> flags, api |-> api], e)

ContextConnect ==
    /\ Running
    /\ \E s \in LiveCtx, server \in OptNames, flags \in {0, 1}, api \in {NULL, 1},
          e \in RetCodes :
         LET self == ctx[s]
             c_server == CStringNew(IF server.some THEN server.s ELSE <<>>)
             p_server == IF server.some THEN AsPtr(c_server, TRUE) ELSE NullStr
             in == [server |-> server, flags |-> flags, api |-> api]
         IN  IF ~c_server.ok
               THEN Panics("Context::connect", self, in, <<>>, "unwrap")
             ELSE StatusCall("Context::connect", self, in, "pa_context_connect",
                             [server |-> p_server, flags |-> flags, api |-> api], e)

ContextLoadCookieFromFile ==
    /\ Running
    /\ \E s \in LiveCtx, path \in Names, e \in RetCodes :
         LET self == ctx[s]
             c_path == CStringNew(path)
             in == [name |-> path]
         IN  IF ~c_path.ok
               THEN Panics("Context::load_cookie_from_file", self, in, <<>>, "unwrap")
             ELSE StatusCall("Context::load_cookie_from_file", self, in,
                             "pa_context_load_cookie_from_file",
                             [name |-> AsPtr(c_path, TRUE)], e)

StreamConnectPlayback ==
    /\ Running
    /\ \E s \in LiveStream, dev \in OptNames, attr \in {NULL, 1}, volume \in {NULL, 1},
          e \in RetCodes :
         LET self == stream[s]
             c_dev == CStringNew(IF dev.some THEN dev.s ELSE <<>>)
             p_dev == IF dev.some THEN AsPtr(c_dev, TRUE) ELSE NullStr
             in == [server |-> dev, flags |-> 0, attr |-> attr, volume |-> volume]
         IN  IF ~c_dev.ok
               THEN Panics("Stream::connect_playback", self, in, <<>>, "unwrap")
             ELSE StatusCall("Stream::connect_playback", self, in,
                             "pa_stream_connect_playback",
                             [server |-> p_dev, attr |-> attr, flags |-> 0,
                              volume |-> volume, sync |-> NULL], e)

StreamConnectRecord ==
    /\ Running
    /\ \E s \in LiveStream, dev \in OptNames, attr \in {NULL, 1}, e \in RetCodes :
         LET self == stream[s]
             c_dev == CStringNew(IF dev.some THEN dev.s ELSE <<>>)
             p_dev == IF dev.some THEN AsPtr(c_dev, TRUE) ELSE NullStr
             in == [server |-> dev, flags |-> 0, attr |-> attr]
         IN  IF ~c_dev.ok
               THEN Panics("Stream::connect_record", self, in, <<>>, "unwrap")
             ELSE StatusCall("Stream::connect_record", self, in, "pa_stream_connect_record",
                             [server |-> p_dev, attr |-> attr, flags |-> 0], e)

StreamConnectUpload ==
    /\ Running
    /\ \E s \in LiveStream, length \in {0, 8}, e \in Codes(lib) :
         LET self == stream[s]
         IN  ReturnedLib("Stream::connect_upload", self, [length |-> length],
                         <<FCall("pa_stream_connect_upload", self.ptr,
                                 [length |-> length], e)>>, <<>>,
                         StatusResult(e), AfterConnectUpload(lib, e))

StreamFinishUpload ==
    /\ Running
    /\ \E s \in LiveStream, e \in RetCodes :
         StatusCall("Stream::finish_upload", stream[s], NoArgs,
                    "pa_stream_finish_upload", NoArgs, e)

StreamDisconnect ==
    /\ Running
    /\ \E s \in LiveStream, e \in RetCodes :
         StatusCall("Stream::disconnect", stream[s], NoArgs, "pa_stream_disconnect", NoArgs, e)

\* The match of Stream::begin_write on the status e, the data pointer p and
\* the size n that pa_stream_begin_write wrote.
\* A classification that looks at the data pointer before the status.
BeginWriteResultPointerFirst(e, p, n) ==
    IF p = NULL THEN Ok([tag |-> "Null"])
    ELSE IF e # 0 THEN Err(e)
    ELSE Ok([tag |-> "Buffer", ptr |-> p, len |-> n])

BeginWriteResult(e, p, n) ==
    IF e # 0 THEN Err(e)
    ELSE IF p = NULL THEN Ok([tag |-> "Null"])
    ELSE Ok([tag |-> "Buffer", ptr |-> p, len |-> n])

\* Stream::begin_write: data_ptr starts null, nbytes_tmp is the requested
\* size or usize::MAX for None; one pa_stream_begin_write call writes both.
BeginWriteBodyReturnsRequested(self, nbytes, o) ==
    LET nbytes_tmp == IF nbytes.tag = "Some" THEN nbytes.val ELSE AllOnes(4)
    IN  ReturnedLib("Stream::begin_write", self, [nbytes |-> nbytes],
                    <<FCall("pa_stream_begin_write", self.ptr, [nbytes |-> nbytes_tmp], o)>>,
                    <<>>, BeginWriteResult(o.e, o.p, nbytes_tmp), AfterBeginWrite(lib, o))

BeginWriteBody(self, nbytes, o) ==
    LET nbytes_tmp == IF nbytes.tag = "Some" THEN nbytes.val ELSE AllOnes(4)
    IN  ReturnedLib("Stream::begin_write", self, [nbytes |-> nbytes],
                    <<FCall("pa_stream_begin_write", self.ptr, [nbytes |-> nbytes_tmp], o)>>,
                    <<>>, BeginWriteResult(o.e, o.p, o.n), AfterBeginWrite(lib, o))

StreamBeginWrite ==
    /\ Running
    /\ \E s \in LiveStream, nbytes \in {None, Some(<<8, 0, 0, 0>>)} :
         \E o \in BeginWriteOutcomes(lib, IF nbytes.tag = "Some" THEN nbytes.val
                                          ELSE AllOnes(4)) :
            BeginWriteBody(stream[s], nbytes, o)

StreamCancelWrite ==
    /\ Running
    /\ \E s \in LiveStream, e \in Codes(lib) :
         LET self == stream[s]
         IN  ReturnedLib("Stream::cancel_write", self, NoArgs,
                         <<FCall("pa_stream_cancel_write", self.ptr, NoArgs, e)>>, <<>>,
                         StatusResult(e), AfterWrite(lib))

\* The body shared by Stream::write and Stream::write_ext_free.  In a debug
\* build the debug_assert_eq! first reads the stream's sample spec (a foreign
\* call; its Option is unwrapped), takes its frame size fs and requires
\* len % fs = 0 (checked_rem is None, and unwrapped, when fs = 0); a release
\* build evaluates none of that.  offset and seek are passed on as given.
ForeignWrite(op, fn, self, in, before, len, offset, seek) ==
    \E e \in WriteReturns(lib, offset, seek) :
      ReturnedLib(op, self, in,
                  Append(before, FCall(fn, self.ptr,
                                       [length |-> len, offset |-> offset, seek |-> seek], e)),
                  <<>>, StatusResult(e), AfterWrite(lib))

WriteBodyChecksAfterWrite(op, fn, self, debug, spec, fs, len, offset, seek) ==
    LET in == [debug |-> debug, fs |-> fs, length |-> len, offset |-> offset, seek |-> seek]
        getspec == FCall("pa_stream_get_sample_spec", self.ptr, NoArgs, spec)
        write == FCall(fn, self.ptr, [length |-> len, offset |-> offset, seek |-> seek], 0)
    IN  IF ~debug
          THEN ForeignWrite(op, fn, self, in, <<>>, len, offset, seek)
        ELSE IF spec = NULL \/ fs = 0
          THEN Panics(op, self, in, <<write, getspec>>, "unwrap")
        ELSE IF len % fs # 0
          THEN Panics(op, self, in, <<write, getspec>>, "debug_assert")
        ELSE ForeignWrite(op, fn, self, in, <<getspec>>, len, offset, seek)

WriteBodyAppendsOnly(op, fn, self, debug, spec, fs, len, offset, seek) ==
    LET in == [debug |-> debug, fs |-> fs, length |-> len, offset |-> offset, seek |-> seek]
        getspec == FCall("pa_stream_get_sample_spec", self.ptr, NoArgs, spec)
    IN  IF ~debug
          THEN ForeignWrite(op, fn, self, in, <<>>, len, 0, "Relative")
        ELSE IF spec = NULL \/ fs = 0
          THEN Panics(op, self, in, <<getspec>>, "unwrap")
        ELSE IF len % fs # 0
          THEN Panics(op, self, in, <<getspec>>, "debug_assert")
        ELSE ForeignWrite(op, fn, self, in, <<getspec>>, len, 0, "Relative")

WriteBody(op, fn, self, debug, spec, fs, len, offset, seek) ==
    LET in == [debug |-> debug, fs |-> fs, length |-> len, offset |-> offset, seek |-> seek]
        getspec == FCall("pa_stream_get_sample_spec", self.ptr, NoArgs, spec)
    IN  IF ~debug
          THEN ForeignWrite(op, fn, self, in, <<>>, len, offset, seek)
        ELSE IF spec = NULL \/ fs = 0
          THEN Panics(op, self, in, <<getspec>>, "unwrap")
        ELSE IF len % fs # 0
          THEN Panics(op, self, in, <<getspec>>, "debug_assert")
        ELSE ForeignWrite(op, fn, self, in, <<getspec>>, len, offset, seek)

\* The inputs of a write: the build, what pa_stream_get_sample_spec returns
\* (spec null or not, frame size fs; a 4-byte frame when the build never
\* asks), the data length, the seek offset and the seek mode.
WriteCall(op, fn) ==
    \E s \in LiveStream, debug \in BOOLEAN, spec \in {NULL, 1}, fs \in {0, 4},
       len \in {4, 6}, offset \in {0, 4}, seek \in {"Relative", "Absolute"} :
      /\ ~debug => spec = 1 /\ fs = 4
      /\ spec = NULL => fs = 0
      /\ WriteBody(op, fn, stream[s], debug, spec, fs, len, offset, seek)

StreamWrite ==
    /\ Running
    /\ WriteCall("Stream::write", "pa_stream_write")

StreamWriteExtFree ==
    /\ Running
    /\ WriteCall("Stream::write_ext_free", "pa_stream_write_ext_free")

\* The match of Stream::peek on the status e, the data pointer p and the
\* byte count n that pa_stream_peek wrote.
PeekResultNullIsEmpty(e, p, n) ==
    IF e # 0 THEN Err(e)
    ELSE IF p = NULL THEN Ok([tag |-> "Empty"])
    ELSE Ok([tag |-> "Data", ptr |-> p, len |-> n])

PeekResult(e, p, n) ==
    IF e # 0 THEN Err(e)
    ELSE IF p = NULL /\ n = <<0, 0, 0, 0>> THEN Ok([tag |-> "Empty"])
    ELSE IF p = NULL THEN Ok([tag |-> "Hole", len |-> n])
    ELSE Ok([tag |-> "Data", ptr |-> p, len |-> n])

\* Stream::peek: data_ptr starts null and nbytes 0; one pa_stream_peek call
\* writes both.
StreamPeekDropsFragment ==
    /\ Running
    /\ \E s \in LiveStream, o \in PeekOutcomes(lib) :
         LET self == stream[s]
         IN  ReturnedLib("Stream::peek", self, NoArgs,
                         <<FCall("pa_stream_peek", self.ptr, NoArgs, o),
                           FCall("pa_stream_drop", self.ptr, NoArgs, 0)>>, <<>>,
                         PeekResult(o.e, o.p, o.n), AfterDrop(AfterPeek(lib, o), 0))

StreamPeek ==
    /\ Running
    /\ \E s \in LiveStream, o \in PeekOutcomes(lib) :
         LET self == stream[s]
         IN  ReturnedLib("Stream::peek", self, NoArgs,
                         <<FCall("pa_stream_peek", self.ptr, NoArgs, o)>>, <<>>,
                         PeekResult(o.e, o.p, o.n), AfterPeek(lib, o))

\* Stream::discard wraps pa_stream_drop.
StreamDiscard ==
    /\ Running
    /\ \E s \in LiveStream, e \in DropReturns(lib) :
         LET self == stream[s]
         IN  ReturnedLib("Stream::discard", self, NoArgs,
                         <<FCall("pa_stream_drop", self.ptr, NoArgs, e)>>, <<>>,
                         StatusResult(e), AfterDrop(lib, e))

StreamSetMonitorStream ==
    /\ Running
    /\ \E s \in LiveStream, idx \in {0, 7}, e \in RetCodes :
         StatusCall("Stream::set_monitor_stream", stream[s], [idx |-> idx],
                    "pa_stream_set_monitor_stream", [idx |-> idx], e)

(***************************************************************************)
(* Queries whose foreign return reserves one value for "unknown".          *)
(***************************************************************************)
\* Widths in bits of u32, of usize (a 64-bit target) and of i64.
U32Bits == 32
UsizeBits == 64
I64Bits == 64
Limbs(bits) == bits \div 16

\* ::def::INVALID_INDEX, the maximum u32.
INVALID_INDEX == AllOnes(Limbs(U32Bits))
\* std::usize::MAX.
USIZE_MAX == AllOnes(Limbs(UsizeBits))
\* -1 as an i64.
MINUS_ONE == AllOnes(Limbs(I64Bits))

\* match r { ::def::INVALID_INDEX => None, r => Some(r) }
OptionIndex(v) == IF v = INVALID_INDEX THEN None ELSE Some(v)

\* match r { std::usize::MAX => None, r => Some(r) }
OptionSizeAs32(v) ==
    IF SubSeq(v, 1, Limbs(U32Bits)) = INVALID_INDEX THEN None ELSE Some(v)

OptionSize(v) == IF v = USIZE_MAX THEN None ELSE Some(v)

\* match r { -1 => None, r => Some(r) }
OptionUnderflowNegative(v) == IF v[Limbs(I64Bits)] >= 32768 THEN None ELSE Some(v)

OptionUnderflow(v) == IF v = MINUS_ONE THEN None ELSE Some(v)

Query(op, self, fn, args, v, result) ==
    Returned(op, self, args, <<FCall(fn, self.ptr, args, v)>>, <<>>, result)

ContextGetIndex ==
    /\ Running
    /\ \E s \in LiveCtx, v \in U32Vals :
         Query("Context::get_index", ctx[s], "pa_context_get_index", NoArgs, v, OptionIndex(v))

ContextGetServerProtocolVersion ==
    /\ Running
    /\ \E s \in LiveCtx, v \in U32Vals :
         Query("Context::get_server_protocol_version", ctx[s],
               "pa_context_get_server_protocol_version", NoArgs, v, OptionIndex(v))

ContextGetTileSize ==
    /\ Running
    /\ \E s \in LiveCtx, v \in UsizeVals :
         Query("Context::get_tile_size", ctx[s], "pa_context_get_tile_size", NoArgs, v,
               OptionSize(v))

StreamGetIndex ==
    /\ Running
    /\ \E s \in LiveStream, v \in U32Vals :
         Query("Stream::get_index", stream[s], "pa_stream_get_index", NoArgs, v,
               OptionIndex(v))

StreamGetDeviceIndex ==
    /\ Running
    /\ \E s \in LiveStream, v \in U32Vals :
         Query("Stream::get_device_index", stream[s], "pa_stream_get_device_index", NoArgs,
               v, OptionIndex(v))

StreamGetMonitorStream ==
    /\ Running
    /\ \E s \in LiveStream, v \in U32Vals :
         Query("Stream::get_monitor_stream", stream[s], "pa_stream_get_monitor_stream",
               NoArgs, v, OptionIndex(v))

StreamWritableSize ==
    /\ Running
    /\ \E s \in LiveStream, v \in UsizeVals :
         Query("Stream::writable_size", stream[s], "pa_stream_writable_size", NoArgs, v,
               OptionSize(v))

StreamReadableSize ==
    /\ Running
    /\ \E s \in LiveStream, v \in UsizeVals :
         Query("Stream::readable_size", stream[s], "pa_stream_readable_size", NoArgs, v,
               OptionSize(v))

StreamGetUnderflowIndex ==
    /\ Running
    /\ \E s \in LiveStream, v \in I64Vals :
         Query("Stream::get_underflow_index", stream[s], "pa_stream_get_underflow_index",
               NoArgs, v, OptionUnderflow(v))

(***************************************************************************)
(* Calls that return an asynchronous operation.                            *)
(***************************************************************************)
\* Operation::from_raw: an owning Operation handle for a non-null pointer.
OperationFromRaw(ptr) ==
    [ok |-> ptr # NULL, ptr |-> ptr, weak |-> FALSE, by |-> "from_raw"]

\* if ptr.is_null() { return None; } Some(Operation::from_raw(ptr))
WrapOperationUnchecked(ptr) ==
    [result |-> Some(Wrapped(OperationFromRaw(ptr))),
     created |-> <<Built("Operation", 0, OperationFromRaw(ptr))>>]

WrapOperation(ptr) ==
    IF ptr = NULL THEN [result |-> None, created |-> <<>>]
    ELSE [result |-> Some(Wrapped(OperationFromRaw(ptr))),
          created |-> <<Built("Operation", 0, OperationFromRaw(ptr))>>]

\* A wrapper that makes one foreign call and wraps the operation it returns.
OperationCall(op, self, in, fn, args, ptr) ==
    Returned(op, self, in, <<FCall(fn, self.ptr, args, ptr)>>,
             WrapOperation(ptr).created, WrapOperation(ptr).result)

\* The same after converting a name, which is passed as args.name.
NamedOperationCall(op, self, name, fn, ptr) ==
    LET c_name == CStringNew(name)
    IN  IF ~c_name.ok THEN Panics(op, self, [name |-> name], <<>>, "unwrap")
        ELSE OperationCall(op, self, [name |-> name], fn, [name |-> AsPtr(c_name, TRUE)], ptr)

ContextDrain ==
    /\ Running
    /\ \E s \in LiveCtx, ptr \in PtrOrNull :
         OperationCall("Context::drain", ctx[s], NoArgs, "pa_context_drain", NoArgs, ptr)

ContextExitDaemon ==
    /\ Running
    /\ \E s \in LiveCtx, ptr \in PtrOrNull :
         OperationCall("Context::exit_daemon", ctx[s], NoArgs, "pa_context_exit_daemon",
                       NoArgs, ptr)

ContextSetDefaultSink ==
    /\ Running
    /\ \E s \in LiveCtx, name \in Names, ptr \in PtrOrNull :
         NamedOperationCall("Context::set_default_sink", ctx[s], name,
                            "pa_context_set_default_sink", ptr)

ContextSetDefaultSource ==
    /\ Running
    /\ \E s \in LiveCtx, name \in Names, ptr \in PtrOrNull :
         NamedOperationCall("Context::set_default_source", ctx[s], name,
                            "pa_context_set_default_source", ptr)

ContextSetName ==
    /\ Running
    /\ \E s \in LiveCtx, name \in Names, ptr \in PtrOrNull :
         NamedOperationCall("Context::set_name", ctx[s], name, "pa_context_set_name", ptr)

ContextProplistUpdate ==
    /\ Running
    /\ \E s \in LiveCtx, mode \in {0, 2}, ptr \in PtrOrNull :
         OperationCall("Context::proplist_update", ctx[s], [mode |-> mode],
                       "pa_context_proplist_update", [mode |-> mode], ptr)

\* Key lists given to proplist_remove.
KeyLists == UNION {[1..k -> Names] : k \in 0..MaxKeys}

\* The pointer array of proplist_remove: `for c_key in c_keys` moves each
\* CString into the loop variable, which is freed at the end of its
\* iteration, so each pointer pushed is dangling by the time of the foreign
\* call; a null entry ends the array.
KeyPtrsKept(keys) ==
    [i \in 1..Len(keys) |-> AsPtr(CStringNew(keys[i]), TRUE)] \o <<NullStr>>

KeyPtrs(keys) ==
    [i \in 1..Len(keys) |-> AsPtr(CStringNew(keys[i]), FALSE)] \o <<NullStr>>

\* The body shared by Context::proplist_remove and Stream::proplist_remove.
\* The foreign call reads freed memory when there is a key: it may return
\* (anything) or the process may die in it (crash).
ProplistRemoveBody(op, fn, self, keys, crash, ptr) ==
    LET in == [keys |-> keys]
        call == FCall(fn, self.ptr, [keys |-> KeyPtrs(keys)], ptr)
    IN  IF \E i \in 1..Len(keys) : ~CStringNew(keys[i]).ok
          THEN Panics(op, self, in, <<>>, "unwrap")
        ELSE IF crash
          THEN Panics(op, self, in, <<call>>, "abort")
        ELSE Returned(op, self, in, <<call>>, WrapOperation(ptr).created,
                      WrapOperation(ptr).result)

ContextProplistRemove ==
    /\ Running
    /\ \E s \in LiveCtx, keys \in KeyLists, crash \in BOOLEAN, ptr \in PtrOrNull :
         /\ crash => (keys # <<>> /\ ptr = NULL)
         /\ ProplistRemoveBody("Context::proplist_remove", "pa_context_proplist_remove",
                               ctx[s], keys, crash, ptr)

StreamDrain ==
    /\ Running
    /\ \E s \in LiveStream, ptr \in PtrOrNull :
         OperationCall("Stream::drain", stream[s], NoArgs, "pa_stream_drain", NoArgs, ptr)

StreamUpdateTimingInfo ==
    /\ Running
    /\ \E s \in LiveStream, ptr \in PtrOrNull :
         LET self == stream[s]
         IN  ReturnedLib("Stream::update_timing_info", self, NoArgs,
                         <<FCall("pa_stream_update_timing_info", self.ptr, NoArgs, ptr)>>,
                         WrapOperation(ptr).created, WrapOperation(ptr).result,
                         AfterUpdateTimingInfo(lib, ptr))

\* Stream::cork passes `true as i32`.
StreamCork ==
    /\ Running
    /\ \E s \in LiveStream, ptr \in PtrOrNull :
         OperationCall("Stream::cork", stream[s], NoArgs, "pa_stream_cork", [b |-> 1], ptr)

\* An uncork that passes the pause flag as cork does.
StreamUncorkPassesTrue ==
    /\ Running
    /\ \E s \in LiveStream, ptr \in PtrOrNull :
         OperationCall("Stream::uncork", stream[s], NoArgs, "pa_stream_cork", [b |-> 1], ptr)

\* Stream::uncork passes `false as i32`.
StreamUncork ==
    /\ Running
    /\ \E s \in LiveStream, ptr \in PtrOrNull :
         OperationCall("Stream::uncork", stream[s], NoArgs, "pa_stream_cork", [b |-> 0], ptr)

StreamFlush ==
    /\ Running
    /\ \E s \in LiveStream, ptr \in PtrOrNull :
         OperationCall("Stream::flush", stream[s], NoArgs, "pa_stream_flush", NoArgs, ptr)

StreamPrebuf ==
    /\ Running
    /\ \E s \in LiveStream, ptr \in PtrOrNull :
         OperationCall("Stream::prebuf", stream[s], NoArgs, "pa_stream_prebuf", NoArgs, ptr)

StreamTrigger ==
    /\ Running
    /\ \E s \in LiveStream, ptr \in PtrOrNull :
         OperationCall("Stream::trigger", stream[s], NoArgs, "pa_stream_trigger", NoArgs, ptr)

StreamSetName ==
    /\ Running
    /\ \E s \in LiveStream, name \in Names, ptr \in PtrOrNull :
         NamedOperationCall("Stream::set_name", stream[s], name, "pa_stream_set_name", ptr)

StreamSetBufferAttr ==
    /\ Running
    /\ \E s \in LiveStream, ptr \in PtrOrNull :
         OperationCall("Stream::set_buffer_attr", stream[s], NoArgs,
                       "pa_stream_set_buffer_attr", NoArgs, ptr)

StreamUpdateSampleRate ==
    /\ Running
    /\ \E s \in LiveStream, rate \in {0, 44100}, ptr \in PtrOrNull :
         OperationCall("Stream::update_sample_rate", stream[s], [rate |-> rate],
                       "pa_stream_update_sample_rate", [rate |-> rate], ptr)

\* Stream::update_proplist wraps pa_stream_proplist_update.
StreamUpdateProplist ==
    /\ Running
    /\ \E s \in LiveStream, mode \in {0, 2}, ptr \in PtrOrNull :
         OperationCall("Stream::update_proplist", stream[s], [mode |-> mode],
                       "pa_stream_proplist_update", [mode |-> mode], ptr)

StreamProplistRemove ==
    /\ Running
    /\ \E s \in LiveStream, keys \in KeyLists, crash \in BOOLEAN, ptr \in PtrOrNull :
         /\ crash => (keys # <<>> /\ ptr = NULL)
         /\ ProplistRemoveBody("Stream::proplist_remove", "pa_stream_proplist_remove",
                               stream[s], keys, crash, ptr)

(***************************************************************************)
(* Timing queries (stream.rs).                                             *)
(***************************************************************************)
\* The match of Stream::get_time on the status e and the time t.
TimeResultUnnegated(e, t) ==
    IF e = 0 THEN Ok(Some(t))
    ELSE IF e = NoData THEN Ok(None)
    ELSE Err(e)

TimeResult(e, t) ==
    IF e = 0 THEN Ok(Some(t))
    ELSE IF e = -NoData THEN Ok(None)
    ELSE Err(e)

StreamGetTime ==
    /\ Running
    /\ \E s \in LiveStream, o \in GetTimeOutcomes(lib) :
         Returned("Stream::get_time", stream[s], NoArgs,
                  <<FCall("pa_stream_get_time", stream[s].ptr, NoArgs, o)>>, <<>>,
                  TimeResult(o.e, o.t))

\* The match of Stream::get_latency on the status e, the time t and the
\* flag negative.
LatencyResultAnyFlag(e, t, negative) ==
    IF e = 0 THEN (IF negative # 0 THEN Ok([tag |-> "Negative", usecs |-> t])
                   ELSE Ok([tag |-> "Positive", usecs |-> t]))
    ELSE IF e = -NoData THEN Ok([tag |-> "None"])
    ELSE Err(e)

LatencyResult(e, t, negative) ==
    IF e = 0 THEN (IF negative = 1 THEN Ok([tag |-> "Negative", usecs |-> t])
                   ELSE Ok([tag |-> "Positive", usecs |-> t]))
    ELSE IF e = -NoData THEN Ok([tag |-> "None"])
    ELSE Err(e)

StreamGetLatency ==
    /\ Running
    /\ \E s \in LiveStream, o \in GetLatencyOutcomes(lib) :
         Returned("Stream::get_latency", stream[s], NoArgs,
                  <<FCall("pa_stream_get_latency", stream[s].ptr, NoArgs, o)>>, <<>>,
                  LatencyResult(o.e, o.t, o.negative))

(***************************************************************************)
(* The State enums (context/mod.rs, stream.rs).  A wrapped State is its    *)
(* variant's name; both enums are repr(C) without explicit discriminants,  *)
(* so a variant's bits are its position in the declaration, from 0.  The   *)
(* native state is that number.  The From impls transmute: the bits stay,  *)
(* the type changes.                                                       *)
(***************************************************************************)
ContextStates ==
    <<"Unconnected", "Connecting", "Authorizing", "SettingName", "Ready", "Failed",
      "Terminated">>
StreamStates == <<"Unconnected", "Creating", "Ready", "Failed", "Terminated">>

Variants(decl) == {decl[i] : i \in 1..Len(decl)}
\* The bits of variant v of an enum declared as decl.
Discriminant(decl, v) == (CHOOSE i \in 1..Len(decl) : decl[i] = v) - 1
\* The variant of decl whose bits are n (n is a value of the native enum).
VariantOfOneBased(decl, n) == decl[IF n = 0 THEN 1 ELSE n]

VariantOf(decl, n) == decl[n + 1]

\* impl From<capi::pa_context_state_t> for State
ContextStateFrom(n) == VariantOf(ContextStates, n)
\* impl From<State> for capi::pa_context_state_t
ContextStateInto(v) == Discriminant(ContextStates, v)
\* impl From<capi::pa_stream_state_t> for State
StreamStateFrom(n) == VariantOf(StreamStates, n)
\* impl From<State> for capi::pa_stream_state_t
StreamStateInto(v) == Discriminant(StreamStates, v)

\* context::State::is_good
ContextIsGood(v) ==
    v = "Connecting" \/ v = "Authorizing" \/ v = "SettingName" \/ v = "Ready"

\* stream::State::is_good
StreamIsGoodUnlessEnded(v) == v # "Failed" /\ v # "Terminated"

StreamIsGood(v) == v = "Creating" \/ v = "Ready"

State(v) == [tag |-> "State", name |-> v]
Native(n) == [tag |-> "Native", val |-> n]
Bool(b) == [tag |-> "Bool", val |-> b]

\* Context::get_state: pa_context_get_state(self.ptr).into()
ContextGetState ==
    /\ Running
    /\ \E s \in LiveCtx, n \in 0..(Len(ContextStates) - 1) :
         Query("Context::get_state", ctx[s], "pa_context_get_state", NoArgs, n,
               State(ContextStateFrom(n)))

\* Stream::get_state: pa_stream_get_state(self.ptr).into()
StreamGetState ==
    /\ Running
    /\ \E s \in LiveStream, n \in 0..(Len(StreamStates) - 1) :
         Query("Stream::get_state", stream[s], "pa_stream_get_state", NoArgs, n,
               State(StreamStateFrom(n)))

\* A call on a State value, which has no handle.
StateCall(op, v, result) ==
    Returned(op, NoHandle, [state |-> v], <<>>, <<>>, result)

ContextStateIntoNative ==
    /\ Running
    /\ \E v \in Variants(ContextStates) :
         StateCall("context::State::into", v, Native(ContextStateInto(v)))

StreamStateIntoNative ==
    /\ Running
    /\ \E v \in Variants(StreamStates) :
         StateCall("stream::State::into", v, Native(StreamStateInto(v)))

ContextStateIsGood ==
    /\ Running
    /\ \E v \in Variants(ContextStates) :
         StateCall("context::State::is_good", v, Bool(ContextIsGood(v)))

StreamStateIsGood ==
    /\ Running
    /\ \E v \in Variants(StreamStates) :
         StateCall("stream::State::is_good", v, Bool(StreamIsGood(v)))

(***************************************************************************)
(* Strings returned by the library.  A foreign string is an address p and  *)
(* the bytes before its terminator; the memory belongs to the library.     *)
(***************************************************************************)
\* Contents of foreign strings: empty, "a", and the lone byte 0xFF (not
\* UTF-8).
ForeignTexts == {<<>>, <<97>>, <<255>>}

\* to_string_lossy: a byte that is not UTF-8 becomes U+FFFD (EF BF BD).
RECURSIVE ToStringLossy(_)
ToStringLossy(bytes) ==
    IF bytes = <<>> THEN <<>>
    ELSE (IF bytes[1] < 128 THEN <<bytes[1]>> ELSE <<239, 191, 189>>)
         \o ToStringLossy(Tail(bytes))

\* A String: bytes in memory the caller owns.
OwnedString(bytes) == [tag |-> "String", bytes |-> bytes, borrows |-> NULL]
\* A &CStr made by CStr::from_ptr(p): a view of the bytes at p.
BorrowedCStr(p, bytes) == [tag |-> "CStr", bytes |-> bytes, borrows |-> p]

\* Context::get_server: None for null, else
\* CStr::from_ptr(ptr).to_string_lossy().into_owned().
ContextGetServer ==
    /\ Running
    /\ \E s \in LiveCtx, p \in PtrOrNull, text \in ForeignTexts :
         /\ p = NULL => text = <<>>
         /\ Query("Context::get_server", ctx[s], "pa_context_get_server", NoArgs,
                  [ptr |-> p, text |-> text],
                  IF p = NULL THEN None ELSE Some(OwnedString(ToStringLossy(text))))

\* Stream::get_device_name: None for null, else CStr::from_ptr(ptr) as a
\* &'static CStr.
StreamGetDeviceName ==
    /\ Running
    /\ \E s \in LiveStream, p \in PtrOrNull, text \in ForeignTexts :
         /\ p = NULL => text = <<>>
         /\ Query("Stream::get_device_name", stream[s], "pa_stream_get_device_name",
                  NoArgs, [ptr |-> p, text |-> text],
                  IF p = NULL THEN None ELSE Some(BorrowedCStr(p, text)))

(***************************************************************************)
(* Yes / no queries (context/mod.rs, stream.rs).                           *)
(***************************************************************************)
\* A match that takes every positive answer for yes.
IsLocalResultPositiveIsYes(r) ==
    IF r > 0 THEN Some(TRUE) ELSE IF r = 0 THEN Some(FALSE) ELSE None

\* The match of Context::is_local: 1 => Some(true), 0 => Some(false), _ => None.
IsLocalResult(r) ==
    IF r = 1 THEN Some(TRUE) ELSE IF r = 0 THEN Some(FALSE) ELSE None

ContextIsLocal ==
    /\ Running
    /\ \E s \in LiveCtx, r \in RetCodes :
         Query("Context::is_local", ctx[s], "pa_context_is_local", NoArgs, r,
               IsLocalResult(r))

\* A match that takes every positive answer for yes.
TruthResultPositiveIsYes(r) ==
    IF r = 0 THEN Ok(FALSE) ELSE IF r > 0 THEN Ok(TRUE) ELSE Err(r)

\* The match of Stream::is_suspended and of Stream::is_corked:
\* 0 => Ok(false), 1 => Ok(true), r => Err(r).
TruthResult(r) ==
    IF r = 0 THEN Ok(FALSE) ELSE IF r = 1 THEN Ok(TRUE) ELSE Err(r)

StreamIsSuspended ==
    /\ Running
    /\ \E s \in LiveStream, r \in RetCodes :
         Query("Stream::is_suspended", stream[s], "pa_stream_is_suspended", NoArgs, r,
               TruthResult(r))

StreamIsCorked ==
    /\ Running
    /\ \E s \in LiveStream, r \in RetCodes :
         Query("Stream::is_corked", stream[s], "pa_stream_is_corked", NoArgs, r,
               TruthResult(r))

(***************************************************************************)
(* The calls on one live Context and one live Stream, each weak or owning. *)
(***************************************************************************)
InitCalls ==
    /\ \E w \in BOOLEAN :
         ctx = [h \in 1..MaxCtx |->
                  IF h = 1 THEN Handle(IF w THEN ContextFromRawWeak(2) ELSE ContextFromRaw(1))
                  ELSE NoHandle]
    /\ \E w \in BOOLEAN :
         stream = [h \in 1..MaxStream |->
                     IF h = 1 THEN Handle(IF w THEN StreamFromRawWeak(1) ELSE StreamFromRaw(2))
                     ELSE NoHandle]
    /\ lib = AnyLib
    /\ last = NoCall

NextCalls ==
    \/ ContextConnect
    \/ ContextLoadCookieFromFile
    \/ StreamConnectPlayback
    \/ StreamConnectRecord
    \/ StreamConnectUpload
    \/ StreamUpdateTimingInfo
    \/ StreamGetTime
    \/ StreamGetLatency
    \/ StreamFinishUpload
    \/ StreamDisconnect
    \/ StreamBeginWrite
    \/ StreamCancelWrite
    \/ StreamWrite
    \/ StreamWriteExtFree
    \/ StreamPeek
    \/ StreamDiscard
    \/ StreamSetMonitorStream
    \/ ContextGetIndex
    \/ ContextGetServerProtocolVersion
    \/ ContextGetTileSize
    \/ StreamGetIndex
    \/ StreamGetDeviceIndex
    \/ StreamGetMonitorStream
    \/ StreamWritableSize
    \/ StreamReadableSize
    \/ StreamGetUnderflowIndex
    \/ ContextDrain
    \/ ContextExitDaemon
    \/ ContextSetDefaultSink
    \/ ContextSetDefaultSource
    \/ ContextSetName
    \/ ContextProplistUpdate
    \/ ContextProplistRemove
    \/ StreamDrain
    \/ StreamUpdateTimingInfo
    \/ StreamCork
    \/ StreamUncork
    \/ StreamFlush
    \/ StreamPrebuf
    \/ StreamTrigger
    \/ StreamSetName
    \/ StreamSetBufferAttr
    \/ StreamUpdateSampleRate
    \/ StreamUpdateProplist
    \/ StreamProplistRemove
    \/ StreamGetTime
    \/ StreamGetLatency
    \/ ContextGetState
    \/ StreamGetState
    \/ ContextStateIntoNative
    \/ StreamStateIntoNative
    \/ ContextStateIsGood
    \/ StreamStateIsGood
    \/ ContextGetServer
    \/ StreamGetDeviceName
    \/ ContextIsLocal
    \/ StreamIsSuspended
    \/ StreamIsCorked

SpecCalls == InitCalls /\ [][NextCalls]_vars

(***************************************************************************)
(* Properties of the calls (checked under SpecCalls).                      *)
(***************************************************************************)
OperationOps ==
    {"Context::drain", "Context::exit_daemon", "Context::set_default_sink",
     "Context::set_default_source", "Context::set_name", "Context::proplist_update",
     "Context::proplist_remove",
     "Stream::drain", "Stream::update_timing_info", "Stream::cork", "Stream::uncork",
     "Stream::flush", "Stream::prebuf", "Stream::trigger", "Stream::set_name",
     "Stream::set_buffer_attr", "Stream::update_sample_rate", "Stream::update_proplist",
     "Stream::proplist_remove"}

\* C7: an operation-returning call whose foreign call returned null gives
\* None and builds no Operation; one whose foreign call returned p # null
\* gives Some(Operation) with pointer p and weak = false, and builds exactly
\* that one Operation handle.
OperationCallWrapsForeignPointer ==
    (last.op \in OperationOps /\ last.panic = "none") =>
      /\ Len(last.fcalls) = 1
      /\ last.fcalls[1].ptr = last.self.ptr
      /\ LET p == last.fcalls[1].ret
         IN  IF p = NULL
               THEN last.result = None /\ last.created = <<>>
             ELSE /\ last.result = Some([ptr |-> p, weak |-> FALSE])
                  /\ Len(last.created) = 1
                  /\ last.created[1].kind = "Operation"
                  /\ last.created[1].ptr = p
                  /\ ~last.created[1].weak

OperationSomeSeen ==
    /\ last.op = "Stream::flush"
    /\ last.fcalls[1].ret = 2
    /\ last.result.tag = "Some"
    /\ last.result.val.ptr = 2
    /\ Len(last.created) = 1

StatusOps ==
    {"Context::connect", "Context::load_cookie_from_file", "Stream::connect_playback",
     "Stream::connect_record", "Stream::connect_upload", "Stream::finish_upload",
     "Stream::disconnect", "Stream::cancel_write", "Stream::write",
     "Stream::write_ext_free", "Stream::discard", "Stream::set_monitor_stream"}

\* C8: a status-returning call that reached its foreign call returns Ok(())
\* iff the foreign status e is 0, and Err(e) with the same e otherwise.
StatusCallReturnsForeignCode ==
    (last.op \in StatusOps /\ last.panic = "none") =>
      LET c == last.fcalls[Len(last.fcalls)]
      IN  /\ c.fn \in StatusFns
          /\ c.ptr = last.self.ptr
          /\ last.result.tag \in {"Ok", "Err"}
          /\ last.result.tag = "Ok" <=> c.ret = 0
          /\ last.result.tag = "Err" => last.result.err = c.ret

\* connect without NOAUTOSPAWN, the foreign call fails with 5: Err(5).
ConnectErrFiveSeen ==
    /\ last.op = "Context::connect"
    /\ last.in.flags = 0
    /\ Len(last.fcalls) = 1
    /\ last.fcalls[1].ret = 5
    /\ last.result = Err(5)

IndexQueries ==
    {"Context::get_index", "Context::get_server_protocol_version", "Stream::get_index",
     "Stream::get_device_index", "Stream::get_monitor_stream"}
SizeQueries == {"Context::get_tile_size", "Stream::writable_size", "Stream::readable_size"}
AllBitsSet(v) == \A i \in 1..Len(v) : v[i] = 2^16 - 1

\* C9: an index query (32 bits) and a size query (the width of usize) return
\* None iff every bit of the foreign value v is set, and Some(v) otherwise.
SentinelQueryNoneIffAllBitsSet ==
    (last.op \in IndexQueries \cup SizeQueries) =>
      LET v == last.fcalls[1].ret
      IN  /\ Len(last.fcalls) = 1
          /\ Len(v) * 16 = (IF last.op \in IndexQueries THEN 32 ELSE UsizeBits)
          /\ last.result = None <=> AllBitsSet(v)
          /\ ~AllBitsSet(v) => last.result = Some(v)

\* A size whose low 32 bits are all set is not the sentinel.
SizeLow32SetSeen ==
    /\ last.op \in SizeQueries
    /\ last.fcalls[1].ret = <<2^16 - 1, 2^16 - 1, 0, 0>>
    /\ last.result = Some(<<2^16 - 1, 2^16 - 1, 0, 0>>)

\* C10: get_underflow_index returns None iff the foreign i64 is -1 (every
\* bit set), and Some(v) for every other v, negative ones and 0 included.
UnderflowIndexNoneIffMinusOne ==
    last.op = "Stream::get_underflow_index" =>
      LET v == last.fcalls[1].ret
      IN  /\ Len(v) = 4
          /\ last.result = None <=> AllBitsSet(v)
          /\ ~AllBitsSet(v) => last.result = Some(v)

\* -2 is passed through.
UnderflowMinusTwoSeen ==
    /\ last.op = "Stream::get_underflow_index"
    /\ last.fcalls[1].ret = <<2^16 - 2, 2^16 - 1, 2^16 - 1, 2^16 - 1>>
    /\ last.result = Some(<<2^16 - 2, 2^16 - 1, 2^16 - 1, 2^16 - 1>>)

InitProtocol ==
    /\ ctx = [h \in 1..MaxCtx |-> IF h = 1 THEN Handle(ContextFromRaw(1)) ELSE NoHandle]
    /\ \E w \in BOOLEAN :
         stream = [h \in 1..MaxStream |->
                     IF h = 1 THEN Handle(IF w THEN StreamFromRawWeak(1) ELSE StreamFromRaw(2))
                     ELSE NoHandle]
    /\ lib = FreshLib
    /\ last = NoCall

NextProtocol ==
    \/ StreamPeek
    \/ StreamDiscard
    \/ StreamBeginWrite
    \/ StreamCancelWrite
    \/ StreamWrite
    \/ StreamWriteExtFree
    \/ StreamConnectUpload
    \/ StreamUpdateTimingInfo
    \/ StreamGetTime
    \/ StreamGetLatency

SpecProtocol == InitProtocol /\ [][NextProtocol]_vars

\* C12: in any sequence of peek and discard calls, a peek that returned Empty
\* leaves nothing to discard and the next peek can follow at once; a peek
\* that returned Hole or Data leaves a fragment that exactly one discard
\* removes successfully; a discard with no such fragment pending (none peeked,
\* or already discarded) does not succeed.
PeekDiscardSequencing ==
    /\ [](last.op = "Stream::peek" /\ last.result.tag = "Ok" =>
            /\ lib.fragment.held <=> last.result.val.tag \in {"Hole", "Data"}
            /\ ENABLED StreamPeek)
    /\ [][last'.op = "Stream::discard" =>
            /\ last'.result = Ok(Unit) <=> lib.fragment.held
            /\ last'.result.tag = "Err" <=> ~lib.fragment.held
            /\ ~lib'.fragment.held]_vars

\* A discard that removed the fragment a peek had found.
DiscardAfterPeekSeen ==
    /\ lib.contract
    /\ last.op = "Stream::discard"
    /\ last.result = Ok(Unit)
    /\ ~lib.fragment.held

\* C13: two consecutive begin_write calls (no write or cancel_write between
\* them) return the identical pointer and length, whatever sizes they ask
\* for; and once a write or cancel_write has reached the library, the region
\* returned before is no longer reserved.
WriteOps == {"Stream::write", "Stream::write_ext_free"}
WriteFns == {"pa_stream_write", "pa_stream_write_ext_free"}
ForeignWrites(c) == {i \in 1..Len(c.fcalls) : c.fcalls[i].fn \in WriteFns}

BeginWriteIdempotent ==
    /\ [][(/\ last.op = "Stream::begin_write"
           /\ last.result.tag = "Ok"
           /\ last.result.val.tag = "Buffer"
           /\ last'.op = "Stream::begin_write") => last'.result = last.result]_vars
    /\ []((\/ last.op \in WriteOps /\ ForeignWrites(last) # {}
           \/ last.op = "Stream::cancel_write") => ~lib.reserved.held)

\* A begin_write that asked for an automatic size and was given the 8-byte
\* region an earlier begin_write had reserved.
BeginWriteAgainSeen ==
    /\ lib.contract
    /\ last.op = "Stream::begin_write"
    /\ last.in.nbytes = None
    /\ last.result.tag = "Ok"
    /\ last.result.val.tag = "Buffer"
    /\ last.result.val.len = <<8, 0, 0, 0>>
    /\ lib.reserved = Held(last.result.val.ptr, <<8, 0, 0, 0>>)

\* C14 as claimed: for write and write_ext_free, a data length that is not a
\* multiple of the stream's frame size is signalled before the foreign write
\* call, so no foreign write call is made for it.
Misaligned(c) == c.in.fs # 0 /\ c.in.length % c.in.fs # 0

MisalignedWriteNeverReachesForeign ==
    (last.op \in WriteOps /\ Misaligned(last)) =>
      /\ last.panic # "none"
      /\ ForeignWrites(last) = {}

\* C14 amended: in a debug build a misaligned length panics in the
\* debug_assert before any foreign write call; in a release build nothing is
\* checked and the misaligned length is passed to exactly one foreign write
\* call, whose status is returned.
MisalignedWriteCheckedInDebugOnly ==
    (last.op \in WriteOps /\ Misaligned(last)) =>
      IF last.in.debug
        THEN /\ last.panic = "debug_assert"
             /\ ForeignWrites(last) = {}
      ELSE /\ last.panic = "none"
           /\ Len(last.fcalls) = 1
           /\ ForeignWrites(last) = {1}
           /\ last.fcalls[1].args.length = last.in.length
           /\ last.result = (IF last.fcalls[1].ret = 0 THEN Ok(Unit)
                              ELSE Err(last.fcalls[1].ret))

\* A debug build that refused a 6-byte write on a stream of 4-byte frames.
MisalignedDebugPanicSeen ==
    /\ last.op = "Stream::write"
    /\ last.in.debug
    /\ last.in.fs = 4
    /\ last.in.length = 6
    /\ last.panic = "debug_assert"
    /\ ForeignWrites(last) = {}

\* C15: on an upload stream a write with a seek mode other than Relative or
\* with a non-zero offset does not succeed.
UploadWriteNeedsRelativeZero ==
    (/\ lib.contract
     /\ lib.upload
     /\ last.op \in WriteOps
     /\ (last.in.offset # 0 \/ last.in.seek # "Relative")) => last.result.tag # "Ok"

\* A write at offset 4 that the library refused on an upload stream.
UploadSeekRefusedSeen ==
    /\ lib.contract
    /\ lib.upload
    /\ last.op = "Stream::write"
    /\ last.in.offset = 4
    /\ last.in.seek = "Relative"
    /\ ForeignWrites(last) # {}
    /\ last.result.tag = "Err"

(***************************************************************************)
(* Timing.                                                                 *)
(***************************************************************************)
\* C16: Stream::get_time returns Ok(Some(t)), t the time the library wrote,
\* iff the foreign status is 0; Ok(None) iff the status is the negated
\* no-data code; Err(e) with the status e unchanged for every other status;
\* and before any timing-info update it returns Ok(None), never Err.
GetTimeMapsStatus ==
    last.op = "Stream::get_time" =>
      /\ last.panic = "none"
      /\ Len(last.fcalls) = 1
      /\ last.fcalls[1].fn = "pa_stream_get_time"
      /\ last.fcalls[1].ptr = last.self.ptr
      /\ LET o == last.fcalls[1].ret
         IN  /\ last.result = Ok(Some(o.t)) <=> o.e = 0
             /\ last.result = Ok(None) <=> o.e = -NoData
             /\ last.result = Err(o.e) <=> o.e \notin {0, -NoData}
             /\ (lib.contract /\ ~lib.timing) => last.result = Ok(None)

\* A get_time before any timing-info update.
GetTimeBeforeUpdateSeen ==
    /\ lib.contract
    /\ ~lib.timing
    /\ last.op = "Stream::get_time"
    /\ last.fcalls[1].ret.e = -NoData
    /\ last.result = Ok(None)

\* C17: Stream::get_latency with foreign status 0 returns Negative(t) iff the
\* foreign negative flag is 1 and Positive(t) for every other flag value, t
\* the time the library wrote; with the negated no-data status it returns
\* Latency::None; for every other status e it returns Err(e); and exactly one
\* of the four outcomes is returned.
GetLatencyMapsStatus ==
    last.op = "Stream::get_latency" =>
      /\ last.panic = "none"
      /\ Len(last.fcalls) = 1
      /\ last.fcalls[1].fn = "pa_stream_get_latency"
      /\ last.fcalls[1].ptr = last.self.ptr
      /\ LET o == last.fcalls[1].ret
             r == last.result
             neg == r = Ok([tag |-> "Negative", usecs |-> o.t])
             pos == r = Ok([tag |-> "Positive", usecs |-> o.t])
             none == r = Ok([tag |-> "None"])
             err == r = Err(o.e)
         IN  /\ neg <=> (o.e = 0 /\ o.negative = 1)
             /\ pos <=> (o.e = 0 /\ o.negative # 1)
             /\ none <=> o.e = -NoData
             /\ err <=> o.e \notin {0, -NoData}
             /\ Cardinality({b \in {<<1, neg>>, <<2, pos>>, <<3, none>>, <<4, err>>} :
                              b[2]}) = 1

\* A latency the library reported with status 0 and the flag 2.
LatencyFlagTwoSeen ==
    /\ last.op = "Stream::get_latency"
    /\ last.fcalls[1].ret = [e |-> 0, t |-> <<5, 0, 0, 0>>, negative |-> 2]
    /\ last.result = Ok([tag |-> "Positive", usecs |-> <<5, 0, 0, 0>>])

(***************************************************************************)
(* The State enums.                                                        *)
(***************************************************************************)
\* The numbering the States are said to have.
ContextStateNumber ==
    [Unconnected |-> 0, Connecting |-> 1, Authorizing |-> 2, SettingName |-> 3,
     Ready |-> 4, Failed |-> 5, Terminated |-> 6]
StreamStateNumber ==
    [Unconnected |-> 0, Creating |-> 1, Ready |-> 2, Failed |-> 3, Terminated |-> 4]

\* C18: the context State has 7 values numbered 0..6 and the stream State 5
\* values numbered 0..4, in declaration order; a native state value converted
\* to the wrapped State and back is the same number, and a wrapped State
\* converted to native and back is the same State.
StateConversionRoundTrips ==
    /\ last.op = "Context::get_state" =>
         /\ last.fcalls[1].ret \in 0..6
         /\ ContextStateNumber[last.result.name] = last.fcalls[1].ret
         /\ ContextStateInto(last.result.name) = last.fcalls[1].ret
    /\ last.op = "Stream::get_state" =>
         /\ last.fcalls[1].ret \in 0..4
         /\ StreamStateNumber[last.result.name] = last.fcalls[1].ret
         /\ StreamStateInto(last.result.name) = last.fcalls[1].ret
    /\ last.op = "context::State::into" =>
         /\ last.result.val = ContextStateNumber[last.in.state]
         /\ ContextStateFrom(last.result.val) = last.in.state
    /\ last.op = "stream::State::into" =>
         /\ last.result.val = StreamStateNumber[last.in.state]
         /\ StreamStateFrom(last.result.val) = last.in.state

\* The native context state 6 read as Terminated.
ContextTerminatedSeen ==
    /\ last.op = "Context::get_state"
    /\ last.fcalls[1].ret = 6
    /\ last.result = State("Terminated")

\* C19: is_good is true exactly for Creating and Ready of the stream State
\* and exactly for Connecting, Authorizing, SettingName and Ready of the
\* context State; it is false for Unconnected, Failed and Terminated in both.
IsGoodExactlyWhileConnecting ==
    /\ last.op = "stream::State::is_good" =>
         /\ last.result.val <=> last.in.state \in {"Creating", "Ready"}
         /\ last.in.state \in {"Unconnected", "Failed", "Terminated"} => ~last.result.val
    /\ last.op = "context::State::is_good" =>
         /\ last.result.val <=>
               last.in.state \in {"Connecting", "Authorizing", "SettingName", "Ready"}
         /\ last.in.state \in {"Unconnected", "Failed", "Terminated"} => ~last.result.val

\* is_good answered false for an unconnected stream.
StreamUnconnectedNotGoodSeen ==
    /\ last.op = "stream::State::is_good"
    /\ last.in.state = "Unconnected"
    /\ last.result = Bool(FALSE)

(***************************************************************************)
(* Strings passed to the library.                                          *)
(***************************************************************************)
\* The string pointers among the arguments of a foreign call: the name and
\* server arguments and every entry of a key array.
StringPtrs(args) ==
    {args[f] : f \in {"name", "server"} \cap DOMAIN args}
      \cup (IF "keys" \in DOMAIN args
              THEN {args.keys[k] : k \in 1..Len(args.keys)}
            ELSE {})

\* C20: for every wrapper operation that passes strings to the library, the
\* keys of both proplist_remove included, the converted buffer behind each
\* non-null pointer passed is still allocated when the foreign call is made
\* and until it returns.
StringBuffersOutliveForeignCall ==
    \A i \in 1..Len(last.fcalls) :
      \A p \in StringPtrs(last.fcalls[i].args) : ~p.null => p.alive

(***************************************************************************)
(* Strings returned by the library.                                        *)
(***************************************************************************)
\* C21: Context::get_server and Stream::get_device_name return None for a
\* null foreign string and otherwise a locally-owned copy: the result holds
\* no pointer into the library's string memory.
StringAccessors == {"Context::get_server", "Stream::get_device_name"}

ReturnedStringsAreOwnedCopies ==
    last.op \in StringAccessors =>
      LET got == last.fcalls[1].ret
      IN  IF got.ptr = NULL THEN last.result = None
          ELSE /\ last.result.tag = "Some"
               /\ last.result.val.borrows = NULL

InitRefs ==
    /\ ctx = [h \in 1..MaxCtx |-> NoHandle]
    /\ stream = [h \in 1..MaxStream |->
                   IF h = 1 THEN Handle(StreamFromRawWeak(1)) ELSE NoHandle]
    /\ lib = FreshLib
    /\ last = NoCall

NextRefs ==
    \/ ContextNew
    \/ ContextNewWithProplist
    \/ ContextFromRawWeakCall
    \/ ContextClone
    \/ StreamGetContext
    \/ ContextDrop

SpecRefs == InitRefs /\ [][NextRefs]_vars

\* The live owning Context handles on object p.
OwningOn(p) == {h \in LiveCtx : ctx[h].ptr = p /\ ~ctx[h].weak}

\* C23: after any sequence of Context constructions, clones, get_context
\* calls and drops, the wrapper never makes more unref calls on a context
\* object than the references it holds (one from creation plus one per ref),
\* and the references it holds on an object are at least the live owning
\* handles on it, so no live owning handle points at an object whose count
\* has reached zero.
UnrefsNeverExceedReferences ==
    /\ ~lib.overdrawn
    /\ \A p \in Ptrs : lib.refs[p] >= Cardinality(OwningOn(p))

\* C24: cloning any Context handle, weak or owning, calls the foreign ref
\* exactly once on the handle's pointer and returns a non-weak handle with
\* the same pointer; every handle that existed, the source included, keeps
\* its pointer and weak flag, and the references held on the object go up
\* by one; dropping that clone next makes one unref and takes the
\* references back to what they were before the clone.
CloneTakesOneReference ==
    /\ [](last.op = "Context::clone" =>
            /\ last.panic = "none"
            /\ last.fcalls = <<FCall("pa_context_ref", last.self.ptr, NoArgs, last.self.ptr)>>
            /\ Len(last.created) = 1
            /\ last.created[1].ptr = last.self.ptr
            /\ ~last.created[1].weak
            /\ last.result = [tag |-> "Value",
                              val |-> [ptr |-> last.self.ptr, weak |-> FALSE]]
            /\ ctx[last.created[1].slot].live
            /\ ctx[last.created[1].slot].ptr = last.self.ptr
            /\ ~ctx[last.created[1].slot].weak)
    /\ [][last'.op = "Context::clone" =>
            /\ \A h \in LiveCtx : ctx'[h] = ctx[h]
            /\ \E h \in LiveCtx : ctx'[h] = last'.self
            /\ stream' = stream
            /\ lib'.refs = [lib.refs EXCEPT ![last'.self.ptr] = @ + 1]
            /\ lib'.overdrawn = lib.overdrawn]_vars
    /\ [][(/\ last.op = "Context::clone"
           /\ last'.op = "Context::drop"
           /\ ctx'[last.created[1].slot] = NoHandle) =>
            /\ last'.fcalls = <<FCall("pa_context_unref", last.self.ptr, NoArgs, 0)>>
            /\ lib'.refs = [lib.refs EXCEPT ![last.self.ptr] = @ - 1]
            /\ lib'.overdrawn = lib.overdrawn]_vars

\* A weak handle was cloned: the clone owns a reference of its own.
CloneOfWeakSeen ==
    /\ last.op = "Context::clone"
    /\ last.self.weak
    /\ ~ctx[last.created[1].slot].weak
    /\ lib.refs[last.self.ptr] >= 1

Drops == {"Context::drop", "Stream::drop"}

\* C25: every live Context or Stream handle has a non-null pointer; a
\* null pointer given to from_raw_weak, or returned to Stream::get_context,
\* ends in an assertion failure and no handle; no call other than a drop
\* changes the pointer or weak flag of a handle that exists; and every drop,
\* of a weak or an owning handle, sets the handle's pointer to null.
LiveHandlesNeverNull ==
    /\ [](/\ \A h \in LiveCtx : ctx[h].ptr # NULL
          /\ \A h \in LiveStream : stream[h].ptr # NULL)
    /\ [](last.op \in {"Context::from_raw_weak", "Stream::from_raw_weak"} =>
            (last.in.ptr = NULL => last.panic = "assert" /\ last.created = <<>>))
    /\ [](last.op = "Stream::get_context" =>
            (last.fcalls[1].ret = NULL => last.panic = "assert" /\ last.created = <<>>))
    /\ [][last'.op \notin Drops =>
            /\ \A h \in LiveCtx : ctx'[h] = ctx[h]
            /\ \A h \in LiveStream : stream'[h] = stream[h]]_vars
    /\ [](last.op \in Drops => last.result = [tag |-> "Dropped", ptr |-> NULL])

\* C26: begin_write makes one pa_stream_begin_write call on the handle's
\* pointer, passing the requested size unchanged for Some(n) and the maximum
\* size value for None; on status 0 it returns Null iff the data pointer the
\* library wrote is null and otherwise Buffer(pointer, size) with the size
\* the library wrote back; on any other status e it returns Err(e) whatever
\* the pointer is.
BeginWriteForwardsAndClassifies ==
    last.op = "Stream::begin_write" =>
      /\ last.panic = "none"
      /\ Len(last.fcalls) = 1
      /\ LET c == last.fcalls[1]
             asked == last.in.nbytes
         IN  /\ c.fn = "pa_stream_begin_write"
             /\ c.ptr = last.self.ptr
             /\ asked.tag = "Some" => c.args.nbytes = asked.val
             /\ asked = None => c.args.nbytes = <<LimbMax, LimbMax, LimbMax, LimbMax>>
             /\ c.ret.e = 0 =>
                  /\ last.result.tag = "Ok"
                  /\ last.result.val.tag = "Null" <=> c.ret.p = NULL
                  /\ c.ret.p # NULL =>
                       last.result.val = [tag |-> "Buffer", ptr |-> c.ret.p, len |-> c.ret.n]
             /\ c.ret.e # 0 => last.result = Err(c.ret.e)

\* An automatic-size begin_write that was given a 4-byte region.
BeginWriteAutoSizeSeen ==
    /\ last.op = "Stream::begin_write"
    /\ last.in.nbytes = None
    /\ last.fcalls[1].ret.e = 0
    /\ last.result = Ok([tag |-> "Buffer", ptr |-> 1, len |-> <<4, 0, 0, 0>>])

ProplistRemoves == {"Context::proplist_remove", "Stream::proplist_remove"}

\* C27: for a key list of length k, the pointer array that proplist_remove
\* passes to the library has exactly k + 1 entries: entry i refers to the
\* converted form of key i, in the original order, and the last entry is
\* null; with no key the array is the single null entry.
KeyArrayRefersToConvertedKeys ==
    (last.op \in ProplistRemoves /\ last.fcalls # <<>>) =>
      LET keys == last.in.keys
          array == last.fcalls[1].args.keys
      IN  /\ Len(last.fcalls) = 1
          /\ Len(array) = Len(keys) + 1
          /\ \A i \in 1..Len(keys) :
               /\ ~array[i].null
               /\ array[i].alive
               /\ array[i].bytes = Append(keys[i], 0)
          /\ array[Len(array)] = NullStr

\* C28: Context::is_local makes one pa_context_is_local call and returns
\* Some(true) iff the call returns 1, Some(false) iff it returns 0, and None
\* for every other integer, negative or greater than 1.
IsLocalMapsAnswer ==
    last.op = "Context::is_local" =>
      /\ last.panic = "none"
      /\ Len(last.fcalls) = 1
      /\ last.fcalls[1].fn = "pa_context_is_local"
      /\ last.fcalls[1].ptr = last.self.ptr
      /\ LET r == last.fcalls[1].ret
         IN  /\ last.result = Some(TRUE) <=> r = 1
             /\ last.result = Some(FALSE) <=> r = 0
             /\ last.result = None <=> r \notin {0, 1}

\* An answer greater than 1 that was reported as None.
IsLocalLargeAnswerSeen ==
    /\ last.op = "Context::is_local"
    /\ last.fcalls[1].ret > 1
    /\ last.result = None

TruthQueries == {"Stream::is_suspended", "Stream::is_corked"}

\* C29: Stream::is_suspended and Stream::is_corked each make one foreign
\* call and return Ok(false) iff it returns 0, Ok(true) iff it returns 1,
\* and Err(r) with r unchanged for every other integer r, positive values
\* greater than 1 included.
TruthQueryMapsAnswer ==
    last.op \in TruthQueries =>
      /\ last.panic = "none"
      /\ Len(last.fcalls) = 1
      /\ last.fcalls[1].fn = (IF last.op = "Stream::is_suspended"
                                THEN "pa_stream_is_suspended" ELSE "pa_stream_is_corked")
      /\ last.fcalls[1].ptr = last.self.ptr
      /\ LET r == last.fcalls[1].ret
         IN  /\ last.result = Ok(FALSE) <=> r = 0
             /\ last.result = Ok(TRUE) <=> r = 1
             /\ r \notin {0, 1} => last.result = Err(r)

\* An is_corked answer greater than 1 that was reported as an error.
IsCorkedLargeAnswerSeen ==
    /\ last.op = "Stream::is_corked"
    /\ last.fcalls[1].ret > 1
    /\ last.result = Err(last.fcalls[1].ret)

Corks == {"Stream::cork", "Stream::uncork"}

\* C30: Stream::cork and Stream::uncork each make exactly one call of the
\* same foreign function, pa_stream_cork, on the handle's pointer: cork
\* always passes 1 (pause), uncork always passes 0 (resume); a null
\* operation pointer is returned as None, a non-null one as an Operation.
CorkAndUncorkPassOppositeFlags ==
    last.op \in Corks =>
      /\ last.panic = "none"
      /\ Len(last.fcalls) = 1
      /\ last.fcalls[1].fn = "pa_stream_cork"
      /\ last.fcalls[1].ptr = last.self.ptr
      /\ last.fcalls[1].args.b = (IF last.op = "Stream::cork" THEN 1 ELSE 0)
      /\ last.fcalls[1].ret = NULL => last.result = None /\ last.created = <<>>
      /\ last.fcalls[1].ret # NULL =>
           last.result = Some([ptr |-> last.fcalls[1].ret, weak |-> FALSE])

\* An uncork for which the library returned no operation.
UncorkNullOperationSeen ==
    /\ last.op = "Stream::uncork"
    /\ last.fcalls[1].args.b = 0
    /\ last.fcalls[1].ret = NULL
    /\ last.result = None

====
